---- MODULE Spec2Model ----
(***************************************************************************)
(* The status endpoint of the repost bot (app/api/progress/route.ts) and   *)
(* the dashboard that polls it (web/src/app/page.tsx).                     *)
(*                                                                         *)
(* The endpoint keeps one status record, either under the key bot_state of *)
(* an external key-value store or in the module variable fallbackStore.    *)
(* A handler runs atomically between two awaits (one JavaScript thread),   *)
(* so every action below is the code between two awaits of a handler.      *)
(***************************************************************************)
EXTENDS Naturals, Integers, FiniteSets, Sequences, TLC

(* ------------------------------ bounds --------------------------------- *)
\* the clock (milliseconds of new Date()) runs from 0 to MaxClock
MaxClock == 2
\* POST handlers that may be awaiting kv.set at the same time (SpecConc)
MaxHandlers == 2
\* dashboard fetches that may be in flight at the same time (SpecDash)
MaxFetches == 2

(* --------------------------- JavaScript values ------------------------- *)
\* a property that is absent from the body
Undefined == "<undefined>"
\* the JavaScript null
Null == "<null>"
\* x || y takes y exactly when x is falsy: undefined, null and "" here
Truthy(v) == v \notin {Undefined, Null, ""}
Or(x, y) == IF Truthy(x) THEN x ELSE y

\* the union type of BotState.status
StatusEnum == {"idle", "downloading", "uploading", "completed", "error"}

\* values of process.env.KV_REST_API_URL / KV_REST_API_TOKEN
EnvValues == {Undefined, "", "set"}

\* what kv.get returns for a key that was never set (null), as a record
KvMissing ==
    [status |-> Null, message |-> Null, reelId |-> Null, sender |-> Null,
     updatedAt |-> -1]

\* the initial value of fallbackStore; the module is loaded at time 0
InitialFallback ==
    [status |-> "idle", message |-> "Bot is initializing...",
     reelId |-> Null, sender |-> Null, updatedAt |-> 0]

(* ------------------------------ request bodies ------------------------- *)
\* kind: "invalid" is text that is not JSON, "null" the JSON null, "prim" a
\* JSON number, string or boolean (it has none of the four properties),
\* "object" a JSON object with the properties that are not Undefined.
NonObject(k) ==
    [kind |-> k, status |-> Undefined, message |-> Undefined,
     reelId |-> Undefined, sender |-> Undefined]
StatusInputs == {Undefined, "", "uploading", "bogus"}
MessageInputs == {Undefined, "Uploading reel"}
ReelInputs == {Undefined, "", "abc123"}
SenderInputs == {Undefined, "alice"}
Objects ==
    [kind : {"object"}, status : StatusInputs, message : MessageInputs,
     reelId : ReelInputs, sender : SenderInputs]
Bodies == {NonObject("invalid"), NonObject("null"), NonObject("prim")} \cup Objects
\* the bodies the automation process sends while it works (SpecConc, SpecDash)
FullBody ==
    [kind |-> "object", status |-> "uploading", message |-> "Uploading reel",
     reelId |-> "abc123", sender |-> "alice"]
StatusOnlyBody ==
    [kind |-> "object", status |-> "completed", message |-> Undefined,
     reelId |-> Undefined, sender |-> Undefined]
FewBodies == {NonObject("invalid"), FullBody, StatusOnlyBody}

(* ------------------------------- state --------------------------------- *)
VARIABLES
    env,            \* [url, token]: process.env, fixed for the process
    kv,             \* the value under KV_KEY in the key-value store
    fallbackStore,  \* the module variable fallbackStore
    now,            \* the clock read by new Date()
    handler,        \* per POST handler awaiting kv.set: [st, body, newState]
    resp,           \* the response of the request that completed last
    lastPost,       \* the response and body of the POST that completed last
    prevGet,        \* the record of the GET before the last one, when no
                    \* POST completed between the two
    kvTouched,      \* kv.get or kv.set has been called
    written,        \* some POST has been answered 200
    botState,       \* the dashboard's botState
    loading,        \* the dashboard's loading flag
    fetch,          \* per dashboard fetch: [st, data]
    shownMax        \* the largest updatedAt the dashboard has displayed

vars ==
    <<env, kv, fallbackStore, now, handler, resp, lastPost, prevGet,
      kvTouched, written, botState, loading, fetch, shownMax>>
dashVars == <<botState, loading, fetch, shownMax>>

Handlers == 1..MaxHandlers
Fetches == 1..MaxFetches

NoBody == NonObject("none")
IdleHandler == [st |-> "idle", body |-> NoBody, newState |-> KvMissing]
\* cause: "json" request.json() rejected, "type" a TypeError on the JSON
\* null, "kv" kv.get or kv.set threw, "" nothing threw
NoResponse ==
    [kind |-> "none", code |-> 0, success |-> FALSE, error |-> "",
     state |-> KvMissing, cause |-> ""]
\* over: the record the POST replaced had no field at its default
NoPost == [code |-> 0, body |-> NoBody, state |-> KvMissing, over |-> FALSE]
IdleFetch == [st |-> "idle", data |-> KvMissing]

\* no field of the record r is the default that POST fills in
NoDefaults(r) ==
    /\ r.status \notin {"idle", Null}
    /\ r.message \notin {"", Null}
    /\ r.reelId # Null
    /\ r.sender # Null

\* process.env.KV_REST_API_URL && process.env.KV_REST_API_TOKEN
UseKvEither == Truthy(env.url) \/ Truthy(env.token)
UseKv == Truthy(env.url) /\ Truthy(env.token)

Init ==
    /\ env \in [url : EnvValues, token : EnvValues]
    /\ kv = KvMissing
    /\ fallbackStore = InitialFallback
    /\ now = 0
    /\ handler = [p \in Handlers |-> IdleHandler]
    /\ resp = NoResponse
    /\ lastPost = NoPost
    /\ prevGet = KvMissing
    /\ kvTouched = FALSE
    /\ written = FALSE
    /\ botState = KvMissing
    /\ loading = TRUE
    /\ fetch = [f \in Fetches |-> IdleFetch]
    /\ shownMax = -1

\* time passes
Tick ==
    /\ now < MaxClock
    /\ now' = now + 1
    /\ UNCHANGED <<env, kv, fallbackStore, handler, resp, lastPost, prevGet,
                   kvTouched, written>>
    /\ UNCHANGED dashVars

(* -------------------------------- GET ---------------------------------- *)
\* the record GET answers with; kvOk says whether kv.get resolves or throws
GetResult(kvOk) ==
    IF UseKv
    THEN IF kvOk
         THEN (IF kv = KvMissing THEN fallbackStore ELSE kv)
         ELSE fallbackStore
    ELSE fallbackStore

GetResponse(kvOk) ==
    [kind |-> "GET", code |-> 200, success |-> FALSE, error |-> "",
     state |-> GetResult(kvOk), cause |-> IF UseKv /\ ~kvOk THEN "kv" ELSE ""]

Get(kvOk) ==
    /\ UseKv \/ kvOk
    /\ resp' = GetResponse(kvOk)
    /\ prevGet' = IF resp.kind = "GET" THEN resp.state ELSE KvMissing
    /\ kvTouched' = (kvTouched \/ UseKv)
    /\ UNCHANGED <<env, kv, fallbackStore, now, handler, lastPost, written>>
    /\ UNCHANGED dashVars

(* -------------------------------- POST --------------------------------- *)
\* a POST that merges the body into the stored record
NewStateMerge(body, t) ==
    LET cur == IF UseKv THEN (IF kv = KvMissing THEN fallbackStore ELSE kv)
               ELSE fallbackStore
    IN  [status |-> Or(body.status, cur.status),
         message |-> Or(body.message, cur.message),
         reelId |-> Or(body.reelId, cur.reelId),
         sender |-> Or(body.sender, cur.sender),
         updatedAt |-> t]
NewState(body, t) ==
    [status |-> Or(body.status, "idle"),
     message |-> Or(body.message, ""),
     reelId |-> Or(body.reelId, Null),
     sender |-> Or(body.sender, Null),
     updatedAt |-> t]

\* await request.json() rejects, or body.status throws on the JSON null
BodyThrows(body) == body.kind \in {"invalid", "null"}

BadRequest(cause) ==
    [kind |-> "POST", code |-> 400, success |-> FALSE,
     error |-> "Invalid payload", state |-> KvMissing, cause |-> cause]
Success(st) ==
    [kind |-> "POST", code |-> 200, success |-> TRUE, error |-> "",
     state |-> st, cause |-> ""]

\* a POST whose body throws, which also resets the record
PostRejectClobber(body) ==
    /\ BodyThrows(body)
    /\ resp' = BadRequest(IF body.kind = "invalid" THEN "json" ELSE "type")
    /\ lastPost' = [code |-> 400, body |-> NoBody, state |-> KvMissing,
                    over |-> FALSE]
    /\ prevGet' = KvMissing
    /\ IF UseKv
       THEN kv' = NewState(NoBody, now) /\ UNCHANGED fallbackStore
       ELSE fallbackStore' = NewState(NoBody, now) /\ UNCHANGED kv
    /\ UNCHANGED <<env, now, handler, kvTouched, written>>
    /\ UNCHANGED dashVars
\* the catch block: a 400 and nothing else
PostReject(body) ==
    /\ BodyThrows(body)
    /\ resp' = BadRequest(IF body.kind = "invalid" THEN "json" ELSE "type")
    /\ lastPost' = [code |-> 400, body |-> NoBody, state |-> KvMissing,
                    over |-> FALSE]
    /\ prevGet' = KvMissing
    /\ UNCHANGED <<env, kv, fallbackStore, now, handler, kvTouched, written>>
    /\ UNCHANGED dashVars

\* a POST without credentials that writes the key-value store as well
PostMemoryWriteThrough(body) ==
    /\ ~BodyThrows(body)
    /\ ~UseKv
    /\ fallbackStore' = NewState(body, now)
    /\ kv' = NewState(body, now)
    /\ resp' = Success(NewState(body, now))
    /\ lastPost' = [code |-> 200, body |-> body, state |-> NewState(body, now),
                    over |-> NoDefaults(fallbackStore)]
    /\ prevGet' = KvMissing
    /\ written' = TRUE
    /\ UNCHANGED <<env, now, handler, kvTouched>>
    /\ UNCHANGED dashVars
\* no credentials: the record is built, stored and answered in one step
PostMemory(body) ==
    /\ ~BodyThrows(body)
    /\ ~UseKv
    /\ fallbackStore' = NewState(body, now)
    /\ resp' = Success(NewState(body, now))
    /\ lastPost' = [code |-> 200, body |-> body, state |-> NewState(body, now),
                    over |-> NoDefaults(fallbackStore)]
    /\ prevGet' = KvMissing
    /\ written' = TRUE
    /\ UNCHANGED <<env, kv, now, handler, kvTouched>>
    /\ UNCHANGED dashVars

\* credentials: the record is built and stamped, then kv.set is awaited
PostKvBegin(p, body) ==
    /\ handler[p].st = "idle"
    /\ ~BodyThrows(body)
    /\ UseKv
    /\ handler' = [handler EXCEPT ![p] =
                     [st |-> "kvset", body |-> body, newState |-> NewState(body, now)]]
    /\ kvTouched' = TRUE
    /\ UNCHANGED <<env, kv, fallbackStore, now, resp, lastPost, prevGet, written>>
    /\ UNCHANGED dashVars

\* kv.set resolves
PostKvSetOk(p) ==
    /\ handler[p].st = "kvset"
    /\ kv' = handler[p].newState
    /\ resp' = Success(handler[p].newState)
    /\ lastPost' = [code |-> 200, body |-> handler[p].body,
                    state |-> handler[p].newState, over |-> NoDefaults(kv)]
    /\ prevGet' = KvMissing
    /\ written' = TRUE
    /\ handler' = [handler EXCEPT ![p] = IdleHandler]
    /\ UNCHANGED <<env, fallbackStore, now, kvTouched>>
    /\ UNCHANGED dashVars

\* kv.set throws: the same catch block as for a body that is not JSON
PostKvSetThrows(p) ==
    /\ handler[p].st = "kvset"
    /\ resp' = BadRequest("kv")
    /\ lastPost' = [code |-> 400, body |-> NoBody, state |-> KvMissing,
                    over |-> FALSE]
    /\ prevGet' = KvMissing
    /\ handler' = [handler EXCEPT ![p] = IdleHandler]
    /\ UNCHANGED <<env, kv, fallbackStore, now, kvTouched, written>>
    /\ UNCHANGED dashVars

\* credentials, and no other request runs while kv.set is awaited
PostKv(body, kvOk) ==
    /\ ~BodyThrows(body)
    /\ UseKv
    /\ kvTouched' = TRUE
    /\ prevGet' = KvMissing
    /\ IF kvOk
       THEN /\ kv' = NewState(body, now)
            /\ resp' = Success(NewState(body, now))
            /\ lastPost' = [code |-> 200, body |-> body,
                            state |-> NewState(body, now),
                            over |-> NoDefaults(kv)]
            /\ written' = TRUE
       ELSE /\ resp' = BadRequest("kv")
            /\ lastPost' = [code |-> 400, body |-> NoBody, state |-> KvMissing,
                    over |-> FALSE]
            /\ UNCHANGED <<kv, written>>
    /\ UNCHANGED <<env, fallbackStore, now, handler>>
    /\ UNCHANGED dashVars

(* ----------------- the endpoint, one request at a time ----------------- *)
Next ==
    \/ Tick
    \/ \E ok \in BOOLEAN : Get(ok)
    \/ \E b \in Bodies : PostReject(b)
    \/ \E b \in Bodies : PostMemory(b)
    \/ \E b \in Bodies, ok \in BOOLEAN : PostKv(b, ok)

Spec == Init /\ [][Next]_vars

(* ------------- the endpoint, POST handlers interleaved ----------------- *)
NextConc ==
    \/ Tick
    \/ \E ok \in BOOLEAN : Get(ok)
    \/ \E b \in FewBodies : PostReject(b)
    \/ \E b \in FewBodies : PostMemory(b)
    \/ \E p \in Handlers, b \in FewBodies : PostKvBegin(p, b)
    \/ \E p \in Handlers : PostKvSetOk(p)
    \/ \E p \in Handlers : PostKvSetThrows(p)

SpecConc == Init /\ [][NextConc]_vars

(* ----------------------------- the dashboard --------------------------- *)
Max(a, b) == IF a >= b THEN a ELSE b

\* fetchStatus is called: on mount, and by the 3-second interval whether or
\* not an earlier call has returned
FetchStart(f) ==
    /\ fetch[f].st = "idle"
    /\ fetch' = [fetch EXCEPT ![f] = [st |-> "sent", data |-> KvMissing]]
    /\ UNCHANGED <<botState, loading, shownMax>>
    /\ UNCHANGED <<env, kv, fallbackStore, now, handler, resp, lastPost,
                   prevGet, kvTouched, written>>

\* the endpoint's GET answers the fetch; the response is on its way
FetchServe(f, kvOk) ==
    /\ fetch[f].st = "sent"
    /\ UseKv \/ kvOk
    /\ fetch' = [fetch EXCEPT ![f] = [st |-> "replied", data |-> GetResult(kvOk)]]
    /\ kvTouched' = (kvTouched \/ UseKv)
    /\ UNCHANGED <<botState, loading, shownMax>>
    /\ UNCHANGED <<env, kv, fallbackStore, now, handler, resp, lastPost,
                   prevGet, written>>

\* the response arrives with res.ok: setBotState(data), then setLoading(false)
FetchResolve(f) ==
    /\ fetch[f].st = "replied"
    /\ botState' = fetch[f].data
    /\ loading' = FALSE
    /\ shownMax' = Max(shownMax, fetch[f].data.updatedAt)
    /\ fetch' = [fetch EXCEPT ![f] = IdleFetch]
    /\ UNCHANGED <<env, kv, fallbackStore, now, handler, resp, lastPost,
                   prevGet, kvTouched, written>>

\* a failed fetch that blanks the display
FetchFailBlank(f) ==
    /\ fetch[f].st = "sent"
    /\ botState' = KvMissing
    /\ loading' = FALSE
    /\ fetch' = [fetch EXCEPT ![f] = IdleFetch]
    /\ UNCHANGED shownMax
    /\ UNCHANGED <<env, kv, fallbackStore, now, handler, resp, lastPost,
                   prevGet, kvTouched, written>>
\* fetch rejects, or the response is not res.ok: only setLoading(false)
FetchFail(f) ==
    /\ fetch[f].st = "sent"
    /\ loading' = FALSE
    /\ fetch' = [fetch EXCEPT ![f] = IdleFetch]
    /\ UNCHANGED <<botState, shownMax>>
    /\ UNCHANGED <<env, kv, fallbackStore, now, handler, resp, lastPost,
                   prevGet, kvTouched, written>>

\* the dashboard polls an endpoint that runs without credentials: the record
\* such an endpoint serves never goes back in time on its own, so what the
\* dashboard displays is due to the dashboard alone
InitDash ==
    /\ Init
    /\ env.url = Undefined
    /\ env.token = Undefined

NextDash ==
    \/ Tick
    \/ \E b \in FewBodies : PostMemory(b)
    \/ \E f \in Fetches : FetchStart(f)
    \/ \E f \in Fetches : FetchServe(f, TRUE)
    \/ \E f \in Fetches : FetchResolve(f)
    \/ \E f \in Fetches : FetchFail(f)

SpecDash == InitDash /\ [][NextDash]_vars

(* ----------------------------- properties ------------------------------ *)
\* both credentials are set to a non-empty value
BothSet == env.url \notin {Undefined, ""} /\ env.token \notin {Undefined, ""}
\* the record the endpoint holds in its backend
StoredRecord == IF BothSet THEN kv ELSE fallbackStore

\* C1: a GET that follows a successful POST, with no other POST completed in
\* between, returns the values of that POST's body (status, message, reelId,
\* sender, for each the body gives) and the updatedAt that POST stamped.
C1_GetReturnsPostedBody ==
    (resp.kind = "GET" /\ lastPost.code = 200) =>
        /\ resp.code = 200
        /\ lastPost.body.status # Undefined => resp.state.status = lastPost.body.status
        /\ lastPost.body.message # Undefined => resp.state.message = lastPost.body.message
        /\ lastPost.body.reelId # Undefined => resp.state.reelId = lastPost.body.reelId
        /\ lastPost.body.sender # Undefined => resp.state.sender = lastPost.body.sender
        /\ resp.state.updatedAt = lastPost.state.updatedAt

\* C2: a POST whose body is not JSON is answered 400 with success false and
\* the error "Invalid payload", and it changes neither the key-value store
\* nor fallbackStore, so GET answers after it what it answered before it,
\* whether kv.get resolves or throws.
C2_InvalidJsonLeavesRecord ==
    [][(resp'.kind = "POST" /\ resp'.cause = "json") =>
          /\ resp'.code = 400
          /\ resp'.success = FALSE
          /\ resp'.error = "Invalid payload"
          /\ kv' = kv
          /\ fallbackStore' = fallbackStore
          /\ \A ok \in BOOLEAN : GetResult(ok)' = GetResult(ok)]_vars
\* a POST that is not JSON was answered after a record had been stored
C2_Witness ==
    /\ resp.kind = "POST"
    /\ resp.cause = "json"
    /\ written
    /\ StoredRecord.status = "uploading"

\* C3: when kv.get or kv.set throws, the request is answered 200; a POST
\* answers success with the new record and keeps it in fallbackStore.
C3_StorageFailureDegrades ==
    resp.cause = "kv" =>
        /\ resp.code = 200
        /\ resp.kind = "POST" =>
              /\ resp.success
              /\ resp.state # KvMissing
              /\ fallbackStore = resp.state
              /\ GetResult(FALSE) = resp.state

\* C4: the record a successful POST stores has the default for every field
\* the body omits (status idle, message empty, reelId and sender null),
\* whatever the record it replaces held.
C4_NoMerge ==
    lastPost.code = 200 =>
        /\ StoredRecord = lastPost.state
        /\ lastPost.body.status = Undefined => lastPost.state.status = "idle"
        /\ lastPost.body.message = Undefined => lastPost.state.message = ""
        /\ lastPost.body.reelId = Undefined => lastPost.state.reelId = Null
        /\ lastPost.body.sender = Undefined => lastPost.state.sender = Null
\* a POST that gives no field replaced a record that had none at its default
C4_Witness ==
    /\ lastPost.code = 200
    /\ lastPost.over
    /\ lastPost.body = NonObject("object")
    /\ StoredRecord.sender = Null

\* C5: two GETs with no POST completed between them return the same record,
\* whether their kv.get calls resolve or throw.
C5_RepeatedGetsIdentical ==
    (resp.kind = "GET" /\ prevGet # KvMissing) => resp.state = prevGet

\* C6: a GET before any successful POST returns 200 and the built-in default
\* record, and a GET returns the built-in default only when no record has
\* been written.
C6_DefaultOnlyBeforeFirstWrite ==
    resp.kind = "GET" =>
        /\ resp.code = 200
        /\ ~written => resp.state = InitialFallback
        /\ resp.state = InitialFallback => ~written

\* C7: the status of the stored record, and of every record GET returns, is
\* one of idle, downloading, uploading, completed, error.
C7_StatusInEnum ==
    /\ fallbackStore.status \in StatusEnum
    /\ kv # KvMissing => kv.status \in StatusEnum
    /\ resp.kind = "GET" => resp.state.status \in StatusEnum

\* C8: with both credentials set, no step changes fallbackStore and a
\* successful POST leaves its record in the key-value store; with either one
\* missing, a successful POST leaves its record in fallbackStore and no step
\* calls or changes the key-value store.
C8_BackendGatedOnBothCredentials ==
    [][/\ BothSet =>
            /\ fallbackStore' = fallbackStore
            /\ (lastPost'.code = 200 /\ lastPost' # lastPost) => kv' = lastPost'.state
       /\ ~BothSet =>
            /\ kv' = kv
            /\ kvTouched' = FALSE
            /\ (lastPost'.code = 200 /\ lastPost' # lastPost) =>
                   fallbackStore' = lastPost'.state]_vars
\* with only the URL set, a POST succeeded and a GET answered it from memory
C8_Witness ==
    /\ Truthy(env.url)
    /\ ~Truthy(env.token)
    /\ lastPost.code = 200
    /\ resp.kind = "GET"
    /\ resp.state = lastPost.state
    /\ kv = KvMissing
    /\ ~kvTouched

\* C9 as claimed: under any interleaving of POST handlers the updatedAt of
\* the stored record never decreases.
C9_UpdatedAtNeverDecreases ==
    [][StoredRecord'.updatedAt >= StoredRecord.updatedAt]_vars
\* C9 as amended: without both credentials the updatedAt of the record GET
\* reads never decreases; with them, the key-value store changes only to the
\* record of a handler whose kv.set resolves, whatever its stamp.
C9_LastSetWins ==
    [][/\ ~BothSet => GetResult(TRUE)'.updatedAt >= GetResult(TRUE).updatedAt
       /\ kv' # kv =>
            \E p \in Handlers :
                /\ handler[p].st = "kvset"
                /\ handler'[p].st = "idle"
                /\ kv' = handler[p].newState]_vars
\* a handler still awaits kv.set with a stamp older than the stored one
C9_Witness ==
    \E p \in Handlers :
        /\ handler[p].st = "kvset"
        /\ kv # KvMissing
        /\ handler[p].newState.updatedAt < kv.updatedAt

\* C10 as claimed: the dashboard never replaces the record it displays by
\* one with an older updatedAt than one it has displayed.
C10_DisplayNeverOlder ==
    botState # KvMissing => botState.updatedAt >= shownMax
\* C10 as amended: a response that arrives with res.ok replaces the displayed
\* record by its own, in the order of arrival; a fetch that fails leaves the
\* displayed record unchanged; both clear the loading flag.
C10_ArrivalOrderWins ==
    [][\A f \in Fetches :
          /\ (fetch[f].st = "sent" /\ fetch'[f].st = "idle") =>
                (botState' = botState /\ loading' = FALSE)
          /\ (fetch[f].st = "replied" /\ fetch'[f].st = "idle") =>
                (botState' = fetch[f].data /\ loading' = FALSE)]_vars
\* a response is in flight that is older than the record on display
C10_Witness ==
    \E f \in Fetches :
        /\ fetch[f].st = "replied"
        /\ ~loading
        /\ botState # KvMissing
        /\ fetch[f].data.updatedAt < botState.updatedAt

====
